---- MODULE Spec2Model ----
(***************************************************************************)
(* A model of the "Better Parenting" add-on (src/__init__.py): the three   *)
(* operators DeleteRecursive, ParentToEmpty and SelectDescendants acting   *)
(* on the host scene graph, and register / unregister acting on the host   *)
(* menus and the add-on keymap.                                            *)
(*                                                                         *)
(* The host (Blender) owns the scene.  What the add-on's calls do there is *)
(* modelled after the host's behaviour:                                    *)
(*  - an object carries a parent pointer, a local transform and a cached   *)
(*    world matrix (matrix_world); the cache is recomputed from the local  *)
(*    transforms along the parent chain whenever the dependency graph is   *)
(*    evaluated, which every bpy.ops call made from a script does first;   *)
(*  - assigning matrix_world stores the matrix and derives the local       *)
(*    transform from it, relative to the parent's cached world matrix;     *)
(*  - assigning Object.parent goes through ED_object_parent, which clears  *)
(*    the parent-inverse matrix and, when the new parent is the object or  *)
(*    one of its descendants (BKE_object_parent_loop_check), leaves the    *)
(*    object without a parent.                                             *)
(* Transforms are modelled by their translation part, three coordinates,   *)
(* each an exact rational or one of the float values +inf, -inf, NaN.      *)
(***************************************************************************)
EXTENDS Integers, Sequences, FiniteSets

\* Number of object ids of a behaviour: MaxNodes - 1 objects in the initial
\* scene and one more for the empty that ParentToEmpty creates.
MaxNodes == 4

\* Number of entries other add-ons may hold in a menu or in the keymap.
MaxOther == 2

\* Number of unregister calls counted.
MaxCycles == 2

Nodes == 1..MaxNodes

\* Python's None, as an object reference.
None == 0

---------------------------------------------------------------------------
(* Float arithmetic: a number is <<n, d>> with d > 0 in lowest terms, or    *)
(* one of the three special values.                                        *)

Inf == <<1, 0>>

NegInf == <<-1, 0>>

NaN == <<0, 0>>

Abs(i) == IF i < 0 THEN -i ELSE i

RECURSIVE GCD(_, _)
GCD(a, b) == IF b = 0 THEN a ELSE GCD(b, a % b)

Rat(n, d) == LET g == GCD(Abs(n), d) IN <<n \div g, d \div g>>

Int2F(i) == <<i, 1>>

IsFinite(a) == a[2] # 0

FAdd(a, b) ==
  IF a[2] # 0 /\ b[2] # 0 THEN Rat(a[1] * b[2] + b[1] * a[2], a[2] * b[2])
  ELSE IF a = NaN \/ b = NaN THEN NaN
  ELSE IF a[2] = 0 /\ b[2] = 0 THEN (IF a = b THEN a ELSE NaN)
  ELSE IF a[2] = 0 THEN a ELSE b

FNeg(a) == <<-a[1], a[2]>>

FSub(a, b) == FAdd(a, FNeg(b))

\* a / k for an integer k > 0
FDiv(a, k) == IF a[2] # 0 THEN Rat(a[1], a[2] * k) ELSE a

\* a < b; every comparison with NaN is false
FLess(a, b) ==
  IF a = NaN \/ b = NaN THEN FALSE
  ELSE IF a[2] # 0 /\ b[2] # 0 THEN a[1] * b[2] < b[1] * a[2]
  ELSE IF a = b THEN FALSE
  ELSE a = NegInf \/ b = Inf

\* Python's min(a, b) and max(a, b): the first argument unless the second
\* is strictly smaller (larger).
FMin(a, b) == IF FLess(b, a) THEN b ELSE a

FMax(a, b) == IF FLess(a, b) THEN b ELSE a

\* mathutils.Vector
Vector(x, y, z) == <<Int2F(x), Int2F(y), Int2F(z)>>

VZero == Vector(0, 0, 0)

VAdd(u, v) == <<FAdd(u[1], v[1]), FAdd(u[2], v[2]), FAdd(u[3], v[3])>>

VSub(u, v) == <<FSub(u[1], v[1]), FSub(u[2], v[2]), FSub(u[3], v[3])>>

VDiv(u, k) == <<FDiv(u[1], k), FDiv(u[2], k), FDiv(u[3], k)>>

VFinite(u) == IsFinite(u[1]) /\ IsFinite(u[2]) /\ IsFinite(u[3])

---------------------------------------------------------------------------
VARIABLES
  objects,               \* bpy.data.objects: the ids of the objects alive
  created,               \* number of objects created so far (ids 1..created)
  parent,                \* Object.parent, None for no parent
  location,              \* local translation (parent-inverse included)
  obj_type,              \* Object.type: "MESH" or "EMPTY"
  vertices,              \* vertex coordinates of the mesh data the meshes use
  selected_objects,      \* context.selected_objects, as a set
  active,                \* view_layer.objects.active
  last,                  \* the last operator run, its inputs and the scene before
  classes_registered,    \* the three operator classes are registered
  VIEW3D_MT_object,      \* draw functions appended to the object menu
  VIEW3D_MT_mesh_add,    \* draw functions appended to the add-mesh menu
  keymap_items,          \* items of the add-on keyconfig's "Window" keymap
  cycles                 \* number of completed unregister calls (capped)

sceneVars == <<objects, created, parent, location, obj_type, vertices,
               selected_objects, active, last>>

regVars == <<classes_registered, VIEW3D_MT_object, VIEW3D_MT_mesh_add,
             keymap_items, cycles>>

vars == <<sceneVars, regVars>>

---------------------------------------------------------------------------
(* The scene graph.                                                        *)

\* a is an ancestor of m along par (at most fuel links are followed)
RECURSIVE IsAncestor(_, _, _, _)
IsAncestor(par, a, m, fuel) ==
  /\ fuel > 0
  /\ par[m] # None
  /\ (par[m] = a \/ IsAncestor(par, a, par[m], fuel - 1))

\* A variant of children_recursive that stops at the direct children.
ChildrenOnly(par, objs, n) == {m \in objs : par[m] = n}

\* Object.children_recursive
ChildrenRecursive(par, objs, n) == {m \in objs : IsAncestor(par, n, m, MaxNodes)}

\* Evaluated world translation of n: local translations summed up the chain.
RECURSIVE WorldOf(_, _, _, _)
WorldOf(par, loc, n, fuel) ==
  IF par[n] = None \/ fuel = 0 THEN loc[n]
  ELSE VAdd(WorldOf(par, loc, par[n], fuel - 1), loc[n])

\* matrix_world of every object after the dependency graph is evaluated
MatrixWorld(par, loc) == [n \in Nodes |-> WorldOf(par, loc, n, MaxNodes)]

\* The orders in which a Python set S may be iterated.
RECURSIVE Orders(_)
Orders(S) ==
  IF S = {} THEN {<<>>}
  ELSE UNION {{<<x>> \o o : o \in Orders(S \ {x})} : x \in S}

NoOp ==
  [op |-> "none", objects |-> {}, parent |-> [n \in Nodes |-> None],
   selected |-> {}, world |-> [n \in Nodes |-> VZero], order |-> <<>>,
   policy |-> "CENTER", empty |-> None, calls |-> [n \in Nodes |-> 0]]

---------------------------------------------------------------------------
(* Host calls the operators make.                                          *)

\* BKE_object_parent_loop_check(par, ob): ob is par or one of par's ancestors
ParentLoopCheck(par, p, ob) == p = ob \/ IsAncestor(par, ob, p, MaxNodes)

\* A variant of the parent assignment that stores the pointer unchecked.
SetParentUnchecked(par, ob, p) == [par EXCEPT ![ob] = p]

\* ob.parent = p
SetParent(par, ob, p) ==
  IF p = None \/ ParentLoopCheck(par, p, ob)
  THEN [par EXCEPT ![ob] = None]
  ELSE [par EXCEPT ![ob] = p]

\* ob.matrix_world = matrix, on st = [parent, location, mw]: the matrix is
\* cached and the local translation derived from the parent's cached matrix.
SetMatrixWorld(st, ob, matrix) ==
  [st EXCEPT !.mw[ob] = matrix,
             !.location[ob] = IF st.parent[ob] = None THEN matrix
                              ELSE VSub(matrix, st.mw[st.parent[ob]])]

\* bpy.data.objects.remove(obj), on st = [objects, parent, location,
\* obj_type, selected, active, calls]: the object goes, its children lose
\* their parent, and it leaves the selection.
Remove(st, obj) ==
  [objects  |-> st.objects \ {obj},
   parent   |-> [n \in Nodes |-> IF n = obj \/ st.parent[n] = obj THEN None
                                 ELSE st.parent[n]],
   location |-> [st.location EXCEPT ![obj] = VZero],
   obj_type |-> [st.obj_type EXCEPT ![obj] = "EMPTY"],
   selected |-> st.selected \ {obj},
   active   |-> IF st.active = obj THEN None ELSE st.active,
   calls    |-> [st.calls EXCEPT ![obj] = @ + 1]]

---------------------------------------------------------------------------
(* DeleteRecursive.execute                                                 *)

\* A variant of the collection that walks one level only.
DeleteCollectShallow(par, objs, sel) ==
  sel \cup UNION {ChildrenOnly(par, objs, p) : p \in sel}

\* objs after the first loop: every selected object and its descendants
DeleteCollect(par, objs, sel) ==
  sel \cup UNION {ChildrenRecursive(par, objs, p) : p \in sel}

\* S in increasing (up) or decreasing order of id
RECURSIVE Sorted(_, _)
Sorted(S, up) ==
  IF S = {} THEN <<>>
  ELSE LET m == CHOOSE x \in S : \A y \in S : IF up THEN x <= y ELSE x >= y
       IN <<m>> \o Sorted(S \ {m}, up)

\* Orders in which the set objs is iterated for removal.  Removals of
\* distinct objects commute (each clears the object and the parent pointer
\* of its children), so two orders stand for all: ids grow from parent to
\* child in the initial scenes, which makes one order remove parents first
\* and the other children first.
RemovalOrders(S) == {Sorted(S, TRUE), Sorted(S, FALSE)}

\* for obj in objs: bpy.data.objects.remove(obj)
RECURSIVE RemoveAll(_, _, _)
RemoveAll(order, i, st) ==
  IF i > Len(order) THEN st
  ELSE RemoveAll(order, i + 1, Remove(st, order[i]))

DeleteRecursive ==
  LET objs == DeleteCollect(parent, objects, selected_objects)
      st0  == [objects |-> objects, parent |-> parent, location |-> location,
               obj_type |-> obj_type, selected |-> selected_objects,
               active |-> active, calls |-> [n \in Nodes |-> 0]]
      pre  == [NoOp EXCEPT !.op = "delete_recursive",
                           !.objects = objects, !.parent = parent,
                           !.selected = selected_objects,
                           !.world = MatrixWorld(parent, location)]
  IN \E before \in {pre}, order \in RemovalOrders(objs) :
       \E st \in {RemoveAll(order, 1, st0)} :
         /\ objects' = st.objects
         /\ parent' = st.parent
         /\ location' = st.location
         /\ obj_type' = st.obj_type
         /\ selected_objects' = st.selected
         /\ active' = st.active
         /\ last' = [before EXCEPT !.calls = st.calls]
         /\ UNCHANGED <<created, vertices, regVars>>

---------------------------------------------------------------------------
(* SelectDescendants.execute                                               *)

\* the objects select_set(True) is called on
SelectCollect(par, objs, sel) ==
  UNION {ChildrenRecursive(par, objs, p) : p \in sel}

SelectDescendants ==
  /\ selected_objects # {}                                   \* poll
  /\ selected_objects' =
       selected_objects \cup SelectCollect(parent, objects, selected_objects)
  /\ last' = [NoOp EXCEPT !.op = "select_descendants",
                          !.objects = objects, !.parent = parent,
                          !.selected = selected_objects,
                          !.world = MatrixWorld(parent, location)]
  /\ UNCHANGED <<objects, created, parent, location, obj_type, vertices,
                 active, regVars>>

---------------------------------------------------------------------------
(* ParentToEmpty.execute                                                   *)

\* sum((obj.matrix_world.translation for obj in objs), Vector())
RECURSIVE SumTranslations(_, _, _, _)
SumTranslations(order, i, mw, acc) ==
  IF i > Len(order) THEN acc
  ELSE SumTranslations(order, i + 1, mw, VAdd(acc, mw[order[i]]))

\* the inner loop of get_bounding_box over the vertices of one object whose
\* world translation is origin; box = [min, max]
RECURSIVE VertexLoop(_, _, _, _)
VertexLoop(verts, j, origin, box) ==
  IF j > Len(verts) THEN box
  ELSE LET world_pos == VAdd(origin, verts[j]) IN
       VertexLoop(verts, j + 1, origin,
         [min |-> <<FMin(box.min[1], world_pos[1]), FMin(box.min[2], world_pos[2]),
                    FMin(box.min[3], world_pos[3])>>,
          max |-> <<FMax(box.max[1], world_pos[1]), FMax(box.max[2], world_pos[2]),
                    FMax(box.max[3], world_pos[3])>>])

\* the outer loop of get_bounding_box over the objects
RECURSIVE ObjectLoop(_, _, _, _, _)
ObjectLoop(meshes, i, mw, verts, box) ==
  IF i > Len(meshes) THEN box
  ELSE ObjectLoop(meshes, i + 1, mw, verts, VertexLoop(verts, 1, mw[meshes[i]], box))

\* min_point and max_point when get_bounding_box returns
BoundingPoints(meshes, mw, verts) ==
  ObjectLoop(meshes, 1, mw, verts,
             [min |-> <<Inf, Inf, Inf>>, max |-> <<NegInf, NegInf, NegInf>>])

get_bounding_box(meshes, mw, verts) ==
  LET box == BoundingPoints(meshes, mw, verts) IN
  [center |-> VDiv(VAdd(box.min, box.max), 2), size |-> VSub(box.max, box.min)]

\* meshes: the members of objs of type MESH, in iteration order
Meshes(order, types) == SelectSeq(order, LAMBDA o : types[o] = "MESH")

\* the location given to the empty
EmptyLocation(order, mw, types, verts, policy) ==
  LET mean   == VDiv(SumTranslations(order, 1, mw, VZero), Len(order))
      meshes == Meshes(order, types)
      bb     == get_bounding_box(meshes, mw, verts)
      half   == <<Int2F(0), Int2F(0), FDiv(bb.size[3], 2)>>
  IN IF Len(meshes) # 0
     THEN CASE policy = "TOP"    -> VAdd(bb.center, half)
            [] policy = "CENTER" -> bb.center
            [] policy = "BOTTOM" -> VSub(bb.center, half)
     ELSE mean

\* A variant of the membership test that never skips an object.
ParentNeverInObjs(par, objs, obj) == FALSE

\* obj.parent in objs
ParentInObjs(par, objs, obj) == par[obj] \in objs

\* the re-parenting loop; st = [parent, location, mw, ext], ext being the
\* local variable parent of execute
RECURSIVE ReparentLoop(_, _, _, _, _)
ReparentLoop(order, i, objs, empty, st) ==
  IF i > Len(order) THEN st
  ELSE LET obj == order[i] IN
       IF ParentInObjs(st.parent, objs, obj)
       THEN ReparentLoop(order, i + 1, objs, empty, st)
       ELSE LET matrix == st.mw[obj]
                st1 == [st EXCEPT !.ext = IF st.ext = None THEN st.parent[obj]
                                          ELSE st.ext,
                                  !.parent = SetParent(st.parent, obj, empty)]
            IN ReparentLoop(order, i + 1, objs, empty,
                            SetMatrixWorld(st1, obj, matrix))

\* if parent: empty.parent = parent, its world matrix kept
ReparentEmpty(empty, st) ==
  IF st.ext # None
  THEN LET matrix == st.mw[empty] IN
       SetMatrixWorld([st EXCEPT !.parent = SetParent(st.parent, empty, st.ext)],
                      empty, matrix)
  ELSE st

\* A variant of the final deselection that leaves the selection alone.
SelectAllKeep(sel) == sel

\* ops.object.select_all(action="DESELECT")
SelectAllDeselect(sel) == {}

ParentToEmpty ==
  /\ selected_objects # {}                                   \* poll
  /\ created < MaxNodes
  /\ \E policy \in {"TOP", "CENTER", "BOTTOM"}, order \in Orders(selected_objects),
        mw0 \in {MatrixWorld(parent, location)} :
       \E loc \in {EmptyLocation(order, mw0, obj_type, vertices, policy)} :
         LET objs  == selected_objects
             empty == created + 1
             st0   == [parent   |-> parent,
                       location |-> [location EXCEPT ![empty] = loc],
                       mw       |-> [mw0 EXCEPT ![empty] = loc],
                       ext      |-> None]
         IN \E st \in {ReparentEmpty(empty, ReparentLoop(order, 1, objs, empty, st0))} :
              /\ objects' = objects \cup {empty}
              /\ created' = empty
              /\ parent' = st.parent
              /\ location' = st.location
              /\ selected_objects' = SelectAllDeselect(selected_objects) \cup {empty}
              /\ active' = empty
              /\ last' = [NoOp EXCEPT !.op = "parent_to_empty",
                                      !.objects = objects, !.parent = parent,
                                      !.selected = selected_objects,
                                      !.world = mw0, !.order = order,
                                      !.policy = policy, !.empty = empty]
              /\ UNCHANGED <<obj_type, vertices, regVars>>

---------------------------------------------------------------------------
(* The user selecting or deselecting one object in the viewport.           *)

UserSelect ==
  \E n \in objects :
    /\ selected_objects' = IF n \in selected_objects
                           THEN selected_objects \ {n}
                           ELSE selected_objects \cup {n}
    /\ last' = NoOp
    /\ UNCHANGED <<objects, created, parent, location, obj_type, vertices,
                   active, regVars>>

---------------------------------------------------------------------------
(* The initial scenes: MaxNodes - 1 objects in a forest; no object, the    *)
(* first, the last or every object is a mesh, and the mesh data has no     *)
(* vertices or two corners of a box.                                       *)

InitLocation(n) == Vector(2 * (n - 1), n % 2, n - 1)

VertexData == {<<>>, <<Vector(-1, -1, 0), Vector(1, 1, 2)>>}

MeshChoices == {{}, {1}, {MaxNodes - 1}, 1..(MaxNodes - 1)}

RegInit ==
  /\ classes_registered = FALSE
  /\ VIEW3D_MT_object = <<>>
  /\ VIEW3D_MT_mesh_add = <<>>
  /\ keymap_items = <<>>
  /\ cycles = 0

Init ==
  /\ objects = 1..(MaxNodes - 1)
  /\ created = MaxNodes - 1
  /\ parent \in {f \in [Nodes -> Nodes \cup {None}] :
                   \A n \in Nodes : f[n] = None \/ (n \in objects /\ f[n] < n)}
  /\ location = [n \in Nodes |-> IF n \in objects THEN InitLocation(n) ELSE VZero]
  /\ obj_type \in {[n \in Nodes |-> IF n \in M THEN "MESH" ELSE "EMPTY"] :
                     M \in MeshChoices}
  /\ vertices \in VertexData
  /\ (\A n \in Nodes : obj_type[n] = "EMPTY") => vertices = <<>>
  /\ selected_objects = {}
  /\ active = None
  /\ last = NoOp
  /\ RegInit

Next ==
  \/ UserSelect
  \/ DeleteRecursive
  \/ SelectDescendants
  \/ ParentToEmpty

Spec == Init /\ [][Next]_vars

---------------------------------------------------------------------------
(* register and unregister.  A menu is the list of the draw functions      *)
(* appended to it, the keymap the list of the operator ids of its items;   *)
(* other add-ons append to and remove from the same lists.                 *)

DeleteMenuFunc == "DeleteRecursive.menu_func"

ParentMenuFunc == "ParentToEmpty.menu_func"

DeleteIdname == "better_parenting.delete_recursive"

SelectIdname == "better_parenting.select_descendants"

Other == "other"

\* number of occurrences of e in the list
RECURSIVE Count(_, _)
Count(list, e) ==
  IF list = <<>> THEN 0
  ELSE (IF Head(list) = e THEN 1 ELSE 0) + Count(Tail(list), e)

\* the list without its first occurrence of e (list.remove, a miss ignored)
RECURSIVE RemoveFirst(_, _)
RemoveFirst(list, e) ==
  IF list = <<>> THEN <<>>
  ELSE IF Head(list) = e THEN Tail(list)
  ELSE <<Head(list)>> \o RemoveFirst(Tail(list), e)

\* Menu.append(draw_func)
MenuAppend(menu, f) == Append(menu, f)

\* A variant of Menu.remove that leaves the menu as it is.
MenuRemoveNothing(menu, f) == menu

\* Menu.remove(draw_func)
MenuRemove(menu, f) == RemoveFirst(menu, f)

\* km.keymap_items.new(idname, ...)
KeymapItemsNew(items, idname) == Append(items, idname)

\* km.keymap_items.remove(km.keymap_items.get(idname))
KeymapItemsRemove(items, idname) == RemoveFirst(items, idname)

\* register(); registering classes that are registered raises before
\* anything is appended
Register ==
  /\ ~classes_registered
  /\ classes_registered' = TRUE
  /\ VIEW3D_MT_object' = MenuAppend(VIEW3D_MT_object, DeleteMenuFunc)
  /\ VIEW3D_MT_mesh_add' = MenuAppend(VIEW3D_MT_mesh_add, ParentMenuFunc)
  /\ keymap_items' =
       KeymapItemsNew(KeymapItemsNew(keymap_items, DeleteIdname), SelectIdname)
  /\ UNCHANGED <<cycles, sceneVars>>

\* unregister(); unregistering classes that are not registered raises
\* before anything is removed
Unregister ==
  /\ classes_registered
  /\ classes_registered' = FALSE
  /\ VIEW3D_MT_object' = MenuRemove(VIEW3D_MT_object, DeleteMenuFunc)
  /\ VIEW3D_MT_mesh_add' = MenuRemove(VIEW3D_MT_mesh_add, ParentMenuFunc)
  /\ keymap_items' =
       KeymapItemsRemove(KeymapItemsRemove(keymap_items, DeleteIdname), SelectIdname)
  /\ cycles' = IF cycles < MaxCycles THEN cycles + 1 ELSE cycles
  /\ UNCHANGED sceneVars

\* another add-on appends an entry to a menu or an item to the keymap
OtherAppend ==
  \/ /\ Count(VIEW3D_MT_object, Other) < MaxOther
     /\ VIEW3D_MT_object' = Append(VIEW3D_MT_object, Other)
     /\ UNCHANGED <<classes_registered, VIEW3D_MT_mesh_add, keymap_items, cycles,
                    sceneVars>>
  \/ /\ Count(VIEW3D_MT_mesh_add, Other) < MaxOther
     /\ VIEW3D_MT_mesh_add' = Append(VIEW3D_MT_mesh_add, Other)
     /\ UNCHANGED <<classes_registered, VIEW3D_MT_object, keymap_items, cycles,
                    sceneVars>>
  \/ /\ Count(keymap_items, Other) < MaxOther
     /\ keymap_items' = Append(keymap_items, Other)
     /\ UNCHANGED <<classes_registered, VIEW3D_MT_object, VIEW3D_MT_mesh_add,
                    cycles, sceneVars>>

\* another add-on removes its entry again
OtherRemove ==
  \/ /\ Count(VIEW3D_MT_object, Other) > 0
     /\ VIEW3D_MT_object' = RemoveFirst(VIEW3D_MT_object, Other)
     /\ UNCHANGED <<classes_registered, VIEW3D_MT_mesh_add, keymap_items, cycles,
                    sceneVars>>
  \/ /\ Count(VIEW3D_MT_mesh_add, Other) > 0
     /\ VIEW3D_MT_mesh_add' = RemoveFirst(VIEW3D_MT_mesh_add, Other)
     /\ UNCHANGED <<classes_registered, VIEW3D_MT_object, keymap_items, cycles,
                    sceneVars>>
  \/ /\ Count(keymap_items, Other) > 0
     /\ keymap_items' = RemoveFirst(keymap_items, Other)
     /\ UNCHANGED <<classes_registered, VIEW3D_MT_object, VIEW3D_MT_mesh_add,
                    cycles, sceneVars>>

\* the scene plays no part in registration: an empty one
InitReg ==
  /\ objects = {}
  /\ created = 0
  /\ parent = [n \in Nodes |-> None]
  /\ location = [n \in Nodes |-> VZero]
  /\ obj_type = [n \in Nodes |-> "EMPTY"]
  /\ vertices = <<>>
  /\ selected_objects = {}
  /\ active = None
  /\ last = NoOp
  /\ RegInit

NextReg ==
  \/ Register
  \/ Unregister
  \/ OtherAppend
  \/ OtherRemove

SpecReg == InitReg /\ [][NextReg]_vars

---------------------------------------------------------------------------
(* Properties.  They are stated on the scene as it is right after an       *)
(* operator (last.op names it) against the scene before it (last).         *)

AfterDelete == last.op = "delete_recursive"

AfterSelect == last.op = "select_descendants"

AfterParent == last.op = "parent_to_empty"

\* roots and everything below them: the least set closed under "child of"
RECURSIVE Subtrees(_, _, _)
Subtrees(par, objs, S) ==
  LET T == S \cup {m \in objs : par[m] \in S} IN
  IF T = S THEN S ELSE Subtrees(par, objs, T)

\* the world translations now, all caches evaluated
WorldNow == MatrixWorld(parent, location)

\* the members of the Selection whose parent was not selected
TopLevel == {n \in last.selected : last.parent[n] \notin last.selected}

\* C1: delete-recursive removes every selected node and every transitive
\* descendant of one, each exactly once, and nothing else; an empty
\* selection removes nothing.
C1_DeleteExact ==
  AfterDelete =>
    LET D == Subtrees(last.parent, last.objects, last.selected) IN
    /\ \A n \in Nodes : last.calls[n] = IF n \in D THEN 1 ELSE 0
    /\ objects = last.objects \ D
    /\ (last.selected = {} => objects = last.objects)

\* a node was selected together with its parent, and an unselected
\* grandchild went with them
C1_Witness ==
  /\ AfterDelete
  /\ \E a, b \in last.selected, c \in last.objects \ last.selected :
       /\ last.parent[b] = a
       /\ last.parent[c] = b
       /\ c \notin objects

\* C2: after parent-to-empty every node of the Selection has the world
\* position it had before.
C2_WorldPreserved ==
  AfterParent => \A n \in last.selected : WorldNow[n] = last.world[n]

\* C3: after parent-to-empty the top-level members of the Selection are
\* children of the anchor, the nested members keep their parent, and so
\* does every unselected node.
C3_ParentLinks ==
  AfterParent =>
    \A n \in last.objects :
      /\ n \in TopLevel => parent[n] = last.empty
      /\ n \notin TopLevel => parent[n] = last.parent[n]

\* a Selection with a nested member and a top-level member under an
\* unselected parent
C3_Witness ==
  /\ AfterParent
  /\ \E n \in last.selected : last.parent[n] \in last.selected
  /\ \E m \in TopLevel : last.parent[m] # None

C5_AnchorParent ==
  AfterParent =>
    LET parented == {i \in DOMAIN last.order :
                       /\ last.order[i] \in TopLevel
                       /\ last.parent[last.order[i]] # None}
        first == CHOOSE i \in parented : \A j \in parented : i <= j
    IN /\ parent[last.empty] = IF parented = {} THEN None
                               ELSE last.parent[last.order[first]]
       /\ parent[last.empty] \notin last.selected

\* a <= b on finite numbers
FLeq(a, b) == IsFinite(a) /\ IsFinite(b) /\ ~FLess(b, a)

\* sum of the translations of the nodes of S before the operator
RECURSIVE SumOver(_)
SumOver(S) ==
  IF S = {} THEN VZero
  ELSE LET n == CHOOSE x \in S : TRUE IN VAdd(last.world[n], SumOver(S \ {n}))

\* world positions of the vertices of the selected meshes before the operator
SelectedVertices ==
  {VAdd(last.world[m], vertices[j]) :
     m \in {n \in last.selected : obj_type[n] = "MESH"}, j \in DOMAIN vertices}

\* least and greatest coordinate of the points W along an axis
AxisMin(W, axis) ==
  CHOOSE x \in {w[axis] : w \in W} : \A w \in W : FLeq(x, w[axis])

AxisMax(W, axis) ==
  CHOOSE x \in {w[axis] : w \in W} : \A w \in W : FLeq(w[axis], x)

AxisMid(W, axis) == FDiv(FAdd(AxisMin(W, axis), AxisMax(W, axis)), 2)

\* C6: without a mesh in the Selection the anchor is at the mean of the
\* selected nodes' world translations; with one, its x and y are the
\* midpoints of the bounding box of the selected meshes' vertices and its z
\* the box's top, middle or bottom according to the policy.
C6_AnchorPlacement ==
  AfterParent =>
    LET anchor == WorldNow[last.empty]
        W == SelectedVertices
    IN IF \A n \in last.selected : obj_type[n] # "MESH"
       THEN anchor = VDiv(SumOver(last.selected), Cardinality(last.selected))
       ELSE /\ W # {}
            /\ \A w \in W : VFinite(w)
            /\ anchor[1] = AxisMid(W, 1)
            /\ anchor[2] = AxisMid(W, 2)
            /\ anchor[3] = CASE last.policy = "TOP"    -> AxisMax(W, 3)
                             [] last.policy = "CENTER" -> AxisMid(W, 3)
                             [] last.policy = "BOTTOM" -> AxisMin(W, 3)

\* C7: when parent-to-empty finishes the anchor is the only selected node
\* and the active one.
C7_AnchorSoleSelection ==
  AfterParent => selected_objects = {last.empty} /\ active = last.empty

\* parent-to-empty ran on a Selection of several nodes
C7_Witness == AfterParent /\ Cardinality(last.selected) >= 2

\* C8: select-descendants adds every transitive descendant of a selected
\* node to the selection and changes nothing else; a selection of leaves
\* stays as it is.
C8_SelectAdditive ==
  AfterSelect =>
    /\ selected_objects = Subtrees(last.parent, last.objects, last.selected)
    /\ last.selected \subseteq selected_objects
    /\ objects = last.objects
    /\ parent = last.parent
    /\ ((\A n \in last.selected : \A m \in last.objects : last.parent[m] # n)
          => selected_objects = last.selected)

\* a grandchild of a selected node became selected
C8_Witness ==
  /\ AfterSelect
  /\ \E n \in selected_objects \ last.selected :
       /\ parent[n] \notin last.selected
       /\ parent[parent[n]] \in last.selected

\* C9: unregistered, the menus and the keymap hold nothing of the add-on;
\* registered, however many register/unregister cycles came before, each
\* menu holds its entry once and the keymap each shortcut once.
C9_RegistrationSymmetric ==
  /\ Count(VIEW3D_MT_object, DeleteMenuFunc) = (IF classes_registered THEN 1 ELSE 0)
  /\ Count(VIEW3D_MT_mesh_add, ParentMenuFunc) = (IF classes_registered THEN 1 ELSE 0)
  /\ Count(keymap_items, DeleteIdname) = (IF classes_registered THEN 1 ELSE 0)
  /\ Count(keymap_items, SelectIdname) = (IF classes_registered THEN 1 ELSE 0)

\* registered again after two cycles, among entries of other add-ons
C9_Witness ==
  /\ classes_registered
  /\ cycles >= 2
  /\ Count(VIEW3D_MT_object, Other) > 0
  /\ Count(keymap_items, Other) > 0

\* C10: whenever the anchor position comes from the bounding box, the box
\* is well-formed on every axis and the anchor position is finite.
C10_BoxWellFormed ==
  (AfterParent /\ \E n \in last.selected : obj_type[n] = "MESH") =>
    LET box == BoundingPoints(Meshes(last.order, obj_type), last.world, vertices) IN
    /\ \A axis \in 1..3 : FLeq(box.min[axis], box.max[axis])
    /\ VFinite(WorldNow[last.empty])

====
